---- MODULE Spec2Model ----
(***************************************************************************)
(* PRGScanner (tiagotnx/scannerprg): the two-phase symbol engine of        *)
(* internal/scanner and the pipeline of cmd/prgscanner/main.go.            *)
(*                                                                         *)
(* Text is modelled character by character: a file is a sequence of        *)
(* one-character strings, split into lines on "\n", matched against        *)
(* declRegex and tokenized as strings.FieldsFunc does.  The goroutines of  *)
(* a phase are processes with a program counter each; every atomic step    *)
(* on shared state (channel receive, mutex lock, critical section,         *)
(* atomic.AddInt64, wg.Done) is one action.                                *)
(***************************************************************************)
EXTENDS Integers, Sequences, FiniteSets, TLC

(***************************************************************************)
(* Bounds of the model.                                                    *)
(***************************************************************************)
\* runtime.NumCPU() of the machine the scan runs on
NumWorkers == 2
\* at most this many (phase, file) reads fail in one run
MaxReadFailures == 1

(***************************************************************************)
(* Characters.                                                             *)
(***************************************************************************)
LowerLetters == <<"a","b","c","d","e","f","g","h","i","j","k","l","m",
                  "n","o","p","q","r","s","t","u","v","w","x","y","z">>
UpperLetters == <<"A","B","C","D","E","F","G","H","I","J","K","L","M",
                  "N","O","P","Q","R","S","T","U","V","W","X","Y","Z">>
AsciiLower == {LowerLetters[i] : i \in 1..26}
AsciiUpper == {UpperLetters[i] : i \in 1..26}
AsciiDigit == {"0","1","2","3","4","5","6","7","8","9"}
\* a letter outside ASCII (unicode.IsLetter holds, [a-zA-Z0-9_] does not match)
NonAsciiLower == {"é"}
NonAsciiUpper == {"É"}

\* unicode.ToLower of one rune, as strings.ToLower applies it
ToLowerChar(c) ==
    IF c \in AsciiUpper
    THEN LowerLetters[CHOOSE i \in 1..26 : UpperLetters[i] = c]
    ELSE IF c = "É" THEN "é" ELSE c

\* strings.ToLower
ToLower(s) == [i \in 1..Len(s) |-> ToLowerChar(s[i])]

\* the separator test of the tokenizer, negated: the runes a token is made of
IsTokenChar(c) ==
    \/ c \in AsciiLower \cup AsciiUpper \cup NonAsciiLower \cup NonAsciiUpper
    \/ c \in AsciiDigit
    \/ c = "_"

\* the class [a-zA-Z0-9_] of declRegex
IsNameChar(c) == c \in AsciiLower \cup AsciiUpper \cup AsciiDigit \cup {"_"}

\* the class \s of declRegex: [\t\n\f\r ]
IsSpace(c) == c \in {" ", "\t", "\n", "\f", "\r"}

(***************************************************************************)
(* strings.Split(content, "\n")                                            *)
(***************************************************************************)
RECURSIVE SplitFrom(_, _, _)
SplitFrom(s, i, cur) ==
    IF i > Len(s) THEN <<cur>>
    ELSE IF s[i] = "\n" THEN <<cur>> \o SplitFrom(s, i + 1, <<>>)
    ELSE SplitFrom(s, i + 1, Append(cur, s[i]))

SplitLines(s) == SplitFrom(s, 1, <<>>)

(***************************************************************************)
(* declRegex: (?i)^\s*(static\s+)?(function|procedure)\s+([a-zA-Z0-9_]+)   *)
(***************************************************************************)
KwStatic    == <<"s","t","a","t","i","c">>
KwFunction  == <<"f","u","n","c","t","i","o","n">>
KwProcedure == <<"p","r","o","c","e","d","u","r","e">>

\* the first position >= i of s that holds no \s (Len(s)+1 when there is none)
RECURSIVE SkipSpaces(_, _)
SkipSpaces(s, i) ==
    IF i <= Len(s) /\ IsSpace(s[i]) THEN SkipSpaces(s, i + 1) ELSE i

\* HasKeywordAt of a pattern without the flag (?i): the letters as written
HasKeywordAtExact(s, i, kw) ==
    /\ i + Len(kw) - 1 <= Len(s)
    /\ \A k \in 1..Len(kw) : s[i + k - 1] = kw[k]

\* kw occurs at position i of s, letter case ignored
HasKeywordAt(s, i, kw) ==
    /\ i + Len(kw) - 1 <= Len(s)
    /\ \A k \in 1..Len(kw) : ToLowerChar(s[i + k - 1]) = kw[k]

\* the first position >= i of s that holds no name character
RECURSIVE SkipName(_, _)
SkipName(s, i) ==
    IF i <= Len(s) /\ IsNameChar(s[i]) THEN SkipName(s, i + 1) ELSE i

\* declRegex.FindStringSubmatch(line): [ok, static, name]; static is
\* strings.TrimSpace(match[1]) != "" and name is match[3]
FindDecl(line) ==
    LET i0   == SkipSpaces(line, 1)
        st   == /\ HasKeywordAt(line, i0, KwStatic)
                /\ i0 + 6 <= Len(line)
                /\ IsSpace(line[i0 + 6])
        i1   == IF st THEN SkipSpaces(line, i0 + 6) ELSE i0
        kwl  == IF HasKeywordAt(line, i1, KwFunction) THEN 8
                ELSE IF HasKeywordAt(line, i1, KwProcedure) THEN 9
                ELSE 0
        i2   == i1 + kwl
        sp   == kwl > 0 /\ i2 <= Len(line) /\ IsSpace(line[i2])
        i3   == IF sp THEN SkipSpaces(line, i2) ELSE i2
        i4   == IF sp THEN SkipName(line, i3) ELSE i3
    IN  IF sp /\ i4 > i3
        THEN [ok |-> TRUE, static |-> st, name |-> SubSeq(line, i3, i4 - 1)]
        ELSE [ok |-> FALSE, static |-> FALSE, name |-> <<>>]

\* the matches of the lines of a file, in line order (the loop of
\* processFileForDeclarations up to the critical section)
RECURSIVE MatchesOf(_)
MatchesOf(lines) ==
    IF lines = <<>> THEN <<>>
    ELSE LET m == FindDecl(Head(lines))
         IN  (IF m.ok THEN <<[static |-> m.static, name |-> m.name]>> ELSE <<>>)
             \o MatchesOf(Tail(lines))

(***************************************************************************)
(* Tokenization: strings.FieldsFunc(content, not letter/digit/underscore)  *)
(***************************************************************************)
RECURSIVE FieldsFrom(_, _, _)
FieldsFrom(s, i, cur) ==
    IF i > Len(s) THEN (IF cur = <<>> THEN <<>> ELSE <<cur>>)
    ELSE IF IsTokenChar(s[i]) THEN FieldsFrom(s, i + 1, Append(cur, s[i]))
    ELSE (IF cur = <<>> THEN <<>> ELSE <<cur>>) \o FieldsFrom(s, i + 1, <<>>)

Tokens(content) == FieldsFrom(ToLower(content), 1, <<>>)

\* freq[token] of processFileForUsage: 0 for a token that does not occur
FreqOf(tokens, tok) == Cardinality({i \in 1..Len(tokens) : tokens[i] = tok})

(***************************************************************************)
(* The scanned tree: the files SearchPRGFiles returns (WalkDir visits in   *)
(* lexical order) and the texts a file may hold.                           *)
(***************************************************************************)
FileNames == <<"a.prg", "b.prg">>
Files == {FileNames[i] : i \in 1..Len(FileNames)}

\* one call of the WalkDir callback: fn(path, d, err) with d.Name(), d.IsDir()
\* and err != nil
Visit(path, name, dir, err) == [path |-> path, name |-> name, dir |-> dir, err |-> err]

ExtPrg == <<".", "p", "r", "g">>
VRoot == Visit("src", <<"s","r","c">>, TRUE, FALSE)
VRootErr == Visit("src", <<"s","r","c">>, FALSE, TRUE)
VFileA == Visit("a.prg", <<"a">> \o ExtPrg, FALSE, FALSE)
VFileB == Visit("b.prg", <<"b">> \o ExtPrg, FALSE, FALSE)
VNotes == Visit("notes.txt", <<"n","o","t","e","s",".","t","x","t">>, FALSE, FALSE)
VSub == Visit("sub", <<"s","u","b">>, TRUE, FALSE)
\* the second call WalkDir makes for a directory it could not read
VSubErr == Visit("sub", <<"s","u","b">>, TRUE, TRUE)

\* the trees of a whole run, as the calls WalkDir makes in lexical order:
\* two sources, one source, no source, an unreadable directory after the
\* first source, a root that cannot be opened
MainTrees ==
    { <<VRoot, VFileA, VFileB>>,
      <<VRoot, VFileA, VNotes>>,
      <<VRoot, VNotes>>,
      <<VRoot, VFileA, VSub, VSubErr>>,
      <<VRootErr>> }

\* HasPrgSuffix without strings.ToLower: the extension as written
HasPrgSuffixExact(name) ==
    /\ Len(name) >= Len(ExtPrg)
    /\ SubSeq(name, Len(name) - Len(ExtPrg) + 1, Len(name)) = ExtPrg

\* strings.HasSuffix(strings.ToLower(d.Name()), ".prg")
HasPrgSuffix(name) ==
    /\ Len(name) >= Len(ExtPrg)
    /\ SubSeq(ToLower(name), Len(name) - Len(ExtPrg) + 1, Len(name)) = ExtPrg

\* the callback of SearchPRGFiles applied to one visit: the list after it and
\* whether it returned an error
WalkFn(files, v) ==
    IF v.err THEN [files |-> files, err |-> TRUE]
    ELSE IF ~v.dir /\ HasPrgSuffix(v.name)
         THEN [files |-> Append(files, v.path), err |-> FALSE]
         ELSE [files |-> files, err |-> FALSE]

\* SearchPRGFiles(root) as a whole: WalkDir stops at the first error the
\* callback returns
RECURSIVE WalkFrom(_, _, _)
WalkFrom(t, i, files) ==
    IF i > Len(t) THEN [files |-> files, err |-> FALSE]
    ELSE LET r == WalkFn(files, t[i])
         IN  IF r.err THEN r ELSE WalkFrom(t, i + 1, r.files)

\* the files a run over tree t reads: none when the search fails
Located(t) ==
    LET r == WalkFrom(t, 1, <<>>)
    IN  IF r.err THEN {} ELSE {r.files[i] : i \in 1..Len(r.files)}
Phases == {"decl", "use"}
Workers == 1..NumWorkers

NL == <<"\n">>
SP == <<" ">>
NmFoo == <<"F","o","o">>
NmB == <<"B">>
LnFunctionFoo == KwFunction \o SP \o NmFoo
LnStaticFoo == KwStatic \o SP \o KwFunction \o SP \o NmFoo
LnCallUpper == <<"F","O","O","(",")">>
LnCallFoo == <<"F","o","o","(",")">>
LnTwoCalls == <<"f","o","o","(",")",";"," ","F","o","o","(",")">>
LnCallFooB == <<"x"," ",":","="," ","F","o","o","B","(",")">>
LnAccent == KwFunction \o SP \o NmFoo \o <<"é">>

\* function Foo
SrcDecl == LnFunctionFoo
\* function Foo / FOO()
SrcDeclCall == LnFunctionFoo \o NL \o LnCallUpper
\* foo(); Foo()
SrcCalls == LnTwoCalls
\* static procedure Foo / Foo() / foo()
SrcStaticUsed == KwStatic \o SP \o KwProcedure \o SP \o NmFoo \o NL
                 \o LnCallFoo \o NL \o <<"f","o","o","(",")">>
\* Static Function B / x := FooB()
SrcStaticOnly == <<"S">> \o Tail(KwStatic) \o <<"\t","F">> \o Tail(KwFunction)
                 \o SP \o NmB \o NL \o LnCallFooB
\* function Foo / function Foo
SrcDeclTwice == LnFunctionFoo \o NL \o LnFunctionFoo
\* static function Foo / static function Foo
SrcStaticTwice == LnStaticFoo \o NL \o LnStaticFoo
\* FUNCTION FOO
SrcDeclUpper == <<"F","U","N","C","T","I","O","N"," ","F","O","O">>
\* function Fooé
SrcDeclAccent == LnAccent
\* function Fooé / FOO()
SrcDeclAccentCall == LnAccent \o NL \o LnCallUpper
\* static function Fooé / Foo()
SrcStaticAccentCall == KwStatic \o SP \o LnAccent \o NL \o LnCallFoo
\* function Foo /   procedure B
SrcTwoDecls == LnFunctionFoo \o NL \o SP \o SP \o KwProcedure \o SP \o NmB
\* B()
SrcCallB == NmB \o <<"(", ")">>

ContentPool ==
    { SrcDecl, SrcDeclCall, SrcCalls, SrcStaticUsed, SrcStaticOnly, SrcDeclTwice,
      SrcStaticTwice, SrcDeclUpper, SrcDeclAccent, SrcDeclAccentCall,
      SrcStaticAccentCall, SrcTwoDecls, SrcCallB }

(***************************************************************************)
(* State.                                                                  *)
(***************************************************************************)
VARIABLES
    tree,             \* the calls WalkDir makes to the callback, in order
    walkIdx,          \* SearchPRGFiles: index of the next call of the callback
    content,          \* the text of each file of the tree
    unreadable,       \* the <<phase, file>> reads at which os.ReadFile fails
    mainPC,           \* main: the statement it is at
    mainPhase,        \* main: the Process*Concurrently call it is in
    prgFiles,         \* main: the result of SearchPRGFiles
    sendIdx,          \* Process*Concurrently: index of the next file to send
    fileCh,           \* per phase: the buffered channel of file paths
    chClosed,         \* per phase: close(fileCh) was called
    wg,               \* per phase: the WaitGroup counter
    wk,               \* per phase and worker: the goroutine's locals and position
    declMutex,        \* 0 when free, else the worker holding it
    globalFunctions,  \* name -> FunctionDeclaration
    staticFunctions,  \* file -> name -> FunctionDeclaration
    bar,              \* per phase: the progress bar's current value
    stats,            \* main: the Statistics record
    unusedGlobal,     \* main: first result of GetUnusedDeclarations
    unusedStatic,     \* main: second result of GetUnusedDeclarations
    logFile,          \* the output file of GenerateLog
    hist              \* per phase and file: receives, reads, bar increments so far

\* what the run is given: it never changes
input == <<tree, content, unreadable>>

vars == <<tree, walkIdx, content, unreadable, mainPC, mainPhase, prgFiles,
          sendIdx, fileCh, chClosed, wg, wk, declMutex, globalFunctions,
          staticFunctions, bar, stats, unusedGlobal, unusedStatic, logFile, hist>>

NoFile == ""
NoTables == [g |-> <<>>, s |-> <<>>]
IdleWorker == [pc |-> "idle", file |-> NoFile, matches |-> <<>>,
               tokens |-> <<>>, todo |-> {}, seen |-> NoTables]
NoHistory == [takes |-> 0, reads |-> 0, advances |-> 0]
NoStats == [TotalGlobal |-> 0, UnusedGlobal |-> 0, TotalStatic |-> 0,
            UnusedStatic |-> 0, GlobalUsagePercentage |-> 0,
            StaticUsagePercentage |-> 0]

\* the state main starts in, whatever the tree holds
InitRun ==
    /\ walkIdx = 1
    /\ logFile = "absent"
    /\ hist = [ph \in Phases |-> [f \in Files |-> NoHistory]]
    /\ mainPC = "search"
    /\ mainPhase = "none"
    /\ prgFiles = <<>>
    /\ sendIdx = 1
    /\ fileCh = [ph \in Phases |-> <<>>]
    /\ chClosed = [ph \in Phases |-> FALSE]
    /\ wg = [ph \in Phases |-> 0]
    /\ wk = [ph \in Phases |-> [i \in Workers |-> IdleWorker]]
    /\ declMutex = 0
    /\ globalFunctions = <<>>
    /\ staticFunctions = <<>>
    /\ bar = [ph \in Phases |-> 0]
    /\ stats = NoStats
    /\ unusedGlobal = <<>>
    /\ unusedStatic = <<>>

\* a run over one of the trees; a path the search does not return names no
\* file that is read, its text is empty
Init ==
    /\ tree \in MainTrees
    /\ content \in [Files -> ContentPool \cup {<<>>}]
    /\ \A f \in Files : content[f] = <<>> <=> f \notin Located(tree)
    /\ unreadable \in {u \in SUBSET (Phases \X Located(tree)) :
                          Cardinality(u) <= MaxReadFailures}
    /\ InitRun

(***************************************************************************)
(* The symbol table: the body of the critical section of                   *)
(* processFileForDeclarations and the counting of processFileForUsage.     *)
(***************************************************************************)
NewDeclaration(name, file, static) ==
    [Name |-> name, File |-> file, Static |-> static, UsageCount |-> 1]

\* m with key k set to v (a Go map assignment m[k] = v)
MapPut(m, k, v) == [x \in (DOMAIN m) \cup {k} |-> IF x = k THEN v ELSE m[x]]

\* the <<file, name>> keys of the two-level static map
StaticKeys(sf) == {k \in (DOMAIN sf) \X UNION {DOMAIN sf[f] : f \in DOMAIN sf} :
                      k[2] \in DOMAIN sf[k[1]]}

\* RegisterStatic treating a repeated static like a repeated global
RegisterStaticIncrement(sf, file, name) ==
    IF file \in DOMAIN sf /\ name \in DOMAIN sf[file]
    THEN [sf EXCEPT ![file][name].UsageCount = @ + 1]
    ELSE LET inner == IF file \in DOMAIN sf THEN sf[file] ELSE <<>>
         IN  [x \in (DOMAIN sf) \cup {file} |->
                 IF x = file
                 THEN [y \in (DOMAIN inner) \cup {name} |->
                          IF y = name
                          THEN [Name |-> name, File |-> file, Static |-> TRUE,
                                UsageCount |-> 1]
                          ELSE inner[y]]
                 ELSE sf[x]]

\* the static branch: staticFunctions[file][name] = &FunctionDeclaration{...}
RegisterStatic(sf, file, name) ==
    LET inner == IF file \in DOMAIN sf THEN sf[file] ELSE <<>>
    IN  MapPut(sf, file, MapPut(inner, name, NewDeclaration(name, file, TRUE)))

\* RegisterGlobal replacing the entry of a repeated name
RegisterGlobalOverwrite(gf, file, name) ==
    [x \in (DOMAIN gf) \cup {name} |->
        IF x = name
        THEN [Name |-> name, File |-> file, Static |-> FALSE, UsageCount |-> 1]
        ELSE gf[x]]

\* the global branch: an existing entry is incremented, a new name is inserted
RegisterGlobal(gf, file, name) ==
    IF name \in DOMAIN gf
    THEN [gf EXCEPT ![name].UsageCount = @ + 1]
    ELSE MapPut(gf, name, NewDeclaration(name, file, FALSE))

\* GlobalCount without the discount of the declaration line
GlobalCountNoDiscount(tokens, file, decl) == FreqOf(tokens, ToLower(decl.Name))

\* the occurrences a usage task adds to a global declaration
GlobalCount(tokens, file, decl) ==
    LET count == FreqOf(tokens, ToLower(decl.Name))
    IN  IF file = decl.File /\ count > 0 THEN count - 1 ELSE count

\* StaticCount without the discount of the declaration line
StaticCountNoDiscount(tokens, decl) == FreqOf(tokens, ToLower(decl.Name))

\* the occurrences a usage task adds to a static declaration of its file
StaticCount(tokens, decl) ==
    LET count == FreqOf(tokens, ToLower(decl.Name))
    IN  IF count > 0 THEN count - 1 ELSE count

\* a plain store of the occurrences on top of the initial count: additions
\* made since are dropped
StoreInt64(value, delta) == 1 + delta

\* atomic.AddInt64(&decl.UsageCount, int64(count)): one indivisible addition
AddInt64(value, delta) == value + delta

\* Counted that also rewrites the name as the lookup spells it
CountedLowerCased(decl, count) ==
    [decl EXCEPT !.UsageCount = AddInt64(@, count), !.Name = ToLower(@)]

\* the entry after a usage task added `count` to it: only the counter moves
Counted(decl, count) == [decl EXCEPT !.UsageCount = AddInt64(@, count)]

\* StaticsOf ranging over the statics of every file
StaticsOfAllFiles(sf, file) == StaticKeys(sf)

\* the static declarations a usage task of `file` visits: the entries of
\* staticFunctions[file], as <<file, name>> keys
StaticsOf(sf, file) ==
    IF file \in DOMAIN sf THEN {<<file, n>> : n \in DOMAIN sf[file]} ELSE {}

\* the body of the critical section for one matched line: the two maps after it
CriticalSection(gf, sf, file, m) ==
    IF m.static
    THEN [g |-> gf, s |-> RegisterStatic(sf, file, m.name)]
    ELSE [g |-> RegisterGlobal(gf, file, m.name), s |-> sf]

(***************************************************************************)
(* main and Process*Concurrently.                                          *)
(***************************************************************************)
\* SearchAborts of a main that drops the error: prgFiles, _ := SearchPRGFiles
SearchErrorIgnored(r) == FALSE

\* main's test err != nil after SearchPRGFiles
SearchAborts(r) == r.err

\* SearchPRGFiles, one call of the callback at a time, its return and the
\* log.Fatalf of main that follows an error
SearchPRGFiles ==
    /\ mainPC = "search"
    /\ IF walkIdx <= Len(tree)
       THEN LET r == WalkFn(prgFiles, tree[walkIdx])
            IN  /\ prgFiles' = r.files
                /\ IF r.err
                   THEN /\ UNCHANGED walkIdx
                        /\ IF SearchAborts(r)
                           THEN mainPC' = "fatal" /\ UNCHANGED mainPhase
                           ELSE mainPC' = "start" /\ mainPhase' = "decl"
                   ELSE /\ walkIdx' = walkIdx + 1
                        /\ UNCHANGED <<mainPC, mainPhase>>
       ELSE /\ mainPC' = "start"
            /\ mainPhase' = "decl"
            /\ UNCHANGED <<prgFiles, walkIdx>>
    /\ UNCHANGED <<input, hist, logFile, sendIdx, fileCh, chClosed, wg, wk, declMutex,
                   globalFunctions, staticFunctions, bar, stats, unusedGlobal,
                   unusedStatic>>

\* make(chan), wg.Add(numWorkers) and the go worker() loop
StartWorkers ==
    /\ mainPC = "start"
    /\ fileCh' = [fileCh EXCEPT ![mainPhase] = <<>>]
    /\ wg' = [wg EXCEPT ![mainPhase] = @ + NumWorkers]
    /\ wk' = [wk EXCEPT ![mainPhase] =
                 [i \in Workers |-> [IdleWorker EXCEPT !.pc = "recv"]]]
    /\ sendIdx' = 1
    /\ mainPC' = "send"
    /\ UNCHANGED <<input, walkIdx, hist, logFile, mainPhase, prgFiles, chClosed, declMutex,
                   globalFunctions, staticFunctions, bar, stats, unusedGlobal,
                   unusedStatic>>

\* fileCh <- file (the buffer holds len(files), so the send never blocks)
SendFile ==
    /\ mainPC = "send"
    /\ sendIdx <= Len(prgFiles)
    /\ fileCh' = [fileCh EXCEPT ![mainPhase] = Append(@, prgFiles[sendIdx])]
    /\ sendIdx' = sendIdx + 1
    /\ UNCHANGED <<input, walkIdx, hist, logFile, mainPC, mainPhase, prgFiles, chClosed, wg,
                   wk, declMutex, globalFunctions, staticFunctions, bar, stats,
                   unusedGlobal, unusedStatic>>

\* close(fileCh)
CloseChannel ==
    /\ mainPC = "send"
    /\ sendIdx > Len(prgFiles)
    /\ chClosed' = [chClosed EXCEPT ![mainPhase] = TRUE]
    /\ mainPC' = "wait"
    /\ UNCHANGED <<input, walkIdx, hist, logFile, mainPhase, prgFiles, sendIdx, fileCh, wg,
                   wk, declMutex, globalFunctions, staticFunctions, bar, stats,
                   unusedGlobal, unusedStatic>>

\* Process*Concurrently without wg.Wait()
WaitReturnsAtOnce(ph) == TRUE

\* wg.Wait() may return
WaitReturns(ph) == wg[ph] = 0

\* wg.Wait(), the return of Process*Concurrently and bar.Finish()
WaitWorkers ==
    /\ mainPC = "wait"
    /\ WaitReturns(mainPhase)
    /\ IF mainPhase = "decl"
       THEN mainPhase' = "use" /\ mainPC' = "start"
       ELSE mainPhase' = "none" /\ mainPC' = "stats"
    /\ UNCHANGED <<input, walkIdx, hist, logFile, prgFiles, sendIdx, fileCh, chClosed, wg, wk,
                   declMutex, globalFunctions, staticFunctions, bar, stats,
                   unusedGlobal, unusedStatic>>

(***************************************************************************)
(* The worker goroutine of a phase.                                        *)
(***************************************************************************)
\* ReadFails of a task that goes on after the error of os.ReadFile
ReadErrorIgnored(ph, file) == FALSE

\* os.ReadFile(file) fails in phase ph
ReadFails(ph, file) == <<ph, file>> \in unreadable

\* for file := range fileCh: a value is received
Receive(ph, i) ==
    /\ wk[ph][i].pc = "recv"
    /\ fileCh[ph] # <<>>
    /\ wk' = [wk EXCEPT ![ph][i].pc = "read", ![ph][i].file = Head(fileCh[ph])]
    /\ fileCh' = [fileCh EXCEPT ![ph] = Tail(@)]
    /\ hist' = [hist EXCEPT ![ph][Head(fileCh[ph])].takes = @ + 1]
    /\ UNCHANGED <<input, walkIdx, logFile, mainPC, mainPhase, prgFiles, sendIdx,
                   chClosed, wg, declMutex, globalFunctions, staticFunctions, bar,
                   stats, unusedGlobal, unusedStatic>>

\* for file := range fileCh: the channel is closed and drained; defer wg.Done()
\* RangeEnds of a worker whose loop never sees the channel closed
RangeNeverEnds(ch, closed) == FALSE

\* for file := range fileCh ends: nothing is buffered and close was called
RangeEnds(ch, closed) == ch = <<>> /\ closed

WorkerExit(ph, i) ==
    /\ wk[ph][i].pc = "recv"
    /\ RangeEnds(fileCh[ph], chClosed[ph])
    /\ wk' = [wk EXCEPT ![ph][i].pc = "exited"]
    /\ wg' = [wg EXCEPT ![ph] = @ - 1]
    /\ UNCHANGED <<input, walkIdx, hist, logFile, mainPC, mainPhase, prgFiles, sendIdx,
                   fileCh, chClosed, declMutex, globalFunctions, staticFunctions,
                   bar, stats, unusedGlobal, unusedStatic>>

\* PcAfterReadError of a worker that takes the next file without
\* bar.Increment() when the read failed
PcSkippingBar == "recv"

\* where the worker is after the early return on a read error: the
\* bar.Increment() that follows the call
PcAfterReadError == "bar"

\* processFileForDeclarations: os.ReadFile, strings.Split and the regex matching
ReadForDeclarations(i) ==
    /\ wk["decl"][i].pc = "read"
    /\ LET file == wk["decl"][i].file
           ms   == MatchesOf(SplitLines(content[file]))
       IN  /\ hist' = [hist EXCEPT !["decl"][file].reads = @ + 1]
           /\ IF ReadFails("decl", file)
              THEN wk' = [wk EXCEPT !["decl"][i].pc = PcAfterReadError]
              ELSE IF ms = <<>>
              THEN wk' = [wk EXCEPT !["decl"][i].pc = "bar"]
              ELSE wk' = [wk EXCEPT !["decl"][i].pc = "lock", !["decl"][i].matches = ms]
    /\ UNCHANGED <<input, walkIdx, logFile, mainPC, mainPhase, prgFiles, sendIdx,
                   fileCh, chClosed, wg, declMutex, globalFunctions,
                   staticFunctions, bar, stats, unusedGlobal, unusedStatic>>

\* MutexFree of an extraction without the mutex: Lock() returns at once
MutexIgnored(m) == TRUE

\* declMutex.Lock() can return: no goroutine holds the mutex
MutexFree(m) == m = 0

\* declMutex.Lock()
LockDecl(i) ==
    /\ wk["decl"][i].pc = "lock"
    /\ MutexFree(declMutex)
    /\ declMutex' = i
    /\ wk' = [wk EXCEPT !["decl"][i].pc = "crit"]
    /\ UNCHANGED <<input, walkIdx, hist, logFile, mainPC, mainPhase, prgFiles, sendIdx,
                   fileCh, chClosed, wg, globalFunctions, staticFunctions, bar,
                   stats, unusedGlobal, unusedStatic>>

\* the critical section, first half: the lookups staticFunctions[file] == nil
\* and gf, exists := globalFunctions[name]
LoadEntry(i) ==
    /\ wk["decl"][i].pc = "crit"
    /\ wk' = [wk EXCEPT !["decl"][i].pc = "store",
                        !["decl"][i].seen = [g |-> globalFunctions,
                                             s |-> staticFunctions]]
    /\ UNCHANGED <<input, walkIdx, hist, logFile, mainPC, mainPhase, prgFiles, sendIdx,
                   fileCh, chClosed, wg, declMutex, globalFunctions,
                   staticFunctions, bar, stats, unusedGlobal, unusedStatic>>

\* the critical section, second half: the entry computed from what the lookup
\* saw is stored (gf.UsageCount++ or the map assignment), and
\* declMutex.Unlock()
RegisterDecl(i) ==
    /\ wk["decl"][i].pc = "store"
    /\ LET w    == wk["decl"][i]
           m    == Head(w.matches)
           rest == Tail(w.matches)
           tab  == CriticalSection(w.seen.g, w.seen.s, w.file, m)
       IN  /\ IF m.static
              THEN /\ staticFunctions' = MapPut(staticFunctions, w.file, tab.s[w.file])
                   /\ UNCHANGED globalFunctions
              ELSE /\ globalFunctions' = MapPut(globalFunctions, m.name, tab.g[m.name])
                   /\ UNCHANGED staticFunctions
           /\ wk' = [wk EXCEPT !["decl"][i].matches = rest,
                               !["decl"][i].seen = NoTables,
                               !["decl"][i].pc = IF rest = <<>> THEN "bar" ELSE "lock"]
    /\ declMutex' = 0
    /\ UNCHANGED <<input, walkIdx, hist, logFile, mainPC, mainPhase, prgFiles, sendIdx,
                   fileCh, chClosed, wg, bar, stats, unusedGlobal, unusedStatic>>

\* where a usage task goes once the loop over globalFunctions is over
AfterGlobals(w) ==
    LET st == StaticsOf(staticFunctions, w.file)
    IN  IF st = {} THEN [w EXCEPT !.pc = "bar", !.todo = {}]
        ELSE [w EXCEPT !.pc = "statics", !.todo = st]

\* processFileForUsage: os.ReadFile, strings.ToLower, tokenization, freq
ReadForUsage(i) ==
    /\ wk["use"][i].pc = "read"
    /\ LET w == wk["use"][i]
       IN  /\ hist' = [hist EXCEPT !["use"][w.file].reads = @ + 1]
           /\ IF ReadFails("use", w.file)
              THEN wk' = [wk EXCEPT !["use"][i].pc = PcAfterReadError]
              ELSE LET w1 == [w EXCEPT !.tokens = Tokens(content[w.file])]
                   IN  wk' = [wk EXCEPT !["use"][i] =
                                 IF DOMAIN globalFunctions = {}
                                 THEN AfterGlobals(w1)
                                 ELSE [w1 EXCEPT !.pc = "globals",
                                                 !.todo = DOMAIN globalFunctions]]
    /\ UNCHANGED <<input, walkIdx, logFile, mainPC, mainPhase, prgFiles, sendIdx,
                   fileCh, chClosed, wg, declMutex, globalFunctions,
                   staticFunctions, bar, stats, unusedGlobal, unusedStatic>>

\* one iteration of for _, decl := range globalFunctions (any order)
CountGlobal(i) ==
    /\ wk["use"][i].pc = "globals"
    /\ \E name \in wk["use"][i].todo :
          LET w     == wk["use"][i]
              count == GlobalCount(w.tokens, w.file, globalFunctions[name])
              w1    == [w EXCEPT !.todo = @ \ {name}]
          IN  /\ globalFunctions' =
                    IF count > 0
                    THEN [globalFunctions EXCEPT ![name] = Counted(@, count)]
                    ELSE globalFunctions
              /\ wk' = [wk EXCEPT !["use"][i] =
                           IF w1.todo = {} THEN AfterGlobals(w1) ELSE w1]
    /\ UNCHANGED <<input, walkIdx, hist, logFile, mainPC, mainPhase, prgFiles, sendIdx,
                   fileCh, chClosed, wg, declMutex, staticFunctions, bar, stats,
                   unusedGlobal, unusedStatic>>

\* one iteration of for _, decl := range funcs (any order)
CountStatic(i) ==
    /\ wk["use"][i].pc = "statics"
    /\ \E key \in wk["use"][i].todo :
          LET w     == wk["use"][i]
              count == StaticCount(w.tokens, staticFunctions[key[1]][key[2]])
              rest  == w.todo \ {key}
          IN  /\ staticFunctions' =
                    IF count > 0
                    THEN [staticFunctions EXCEPT ![key[1]][key[2]] = Counted(@, count)]
                    ELSE staticFunctions
              /\ wk' = [wk EXCEPT !["use"][i].todo = rest,
                                  !["use"][i].pc = IF rest = {} THEN "bar" ELSE "statics"]
    /\ UNCHANGED <<input, walkIdx, hist, logFile, mainPC, mainPhase, prgFiles, sendIdx,
                   fileCh, chClosed, wg, declMutex, globalFunctions, bar, stats,
                   unusedGlobal, unusedStatic>>

\* bar.Increment() after the file's task returned
BarIncrement(ph, i) ==
    /\ wk[ph][i].pc = "bar"
    /\ bar' = [bar EXCEPT ![ph] = @ + 1]
    /\ hist' = [hist EXCEPT ![ph][wk[ph][i].file].advances = @ + 1]
    /\ wk' = [wk EXCEPT ![ph][i] = [IdleWorker EXCEPT !.pc = "recv"]]
    /\ UNCHANGED <<input, walkIdx, logFile, mainPC, mainPhase, prgFiles, sendIdx,
                   fileCh, chClosed, wg, declMutex, globalFunctions,
                   staticFunctions, stats, unusedGlobal, unusedStatic>>

(***************************************************************************)
(* Aggregation: CalculateStatistics, GetUnusedDeclarations, GenerateLog.   *)
(***************************************************************************)
\* the test decl.UsageCount <= 1 of CalculateStatistics
CountsAsUnused(decl) == decl.UsageCount <= 1

\* ListedAsUnused with the threshold off by one
ListedAsUnusedBelowOne(decl) == decl.UsageCount < 1

\* the test atomic.LoadInt64(&decl.UsageCount) <= 1 of GetUnusedDeclarations
ListedAsUnused(decl) == decl.UsageCount <= 1

\* UsagePercentage without the factor 100.0: the used share as a fraction
UsageFraction(used, total) ==
    IF total > 0 THEN (used * 100) \div total ELSE 0

\* float64(used) / float64(total) * 100.0, in hundredths of a percent
\* (rounded down), 0 when the guard total > 0 fails
UsagePercentage(used, total) ==
    IF total > 0 THEN (used * 10000) \div total ELSE 0

StatisticsOf(gf, sf) ==
    LET totalGlobal  == Cardinality(DOMAIN gf)
        unusedGlobalCount == Cardinality({n \in DOMAIN gf : CountsAsUnused(gf[n])})
        totalStatic  == Cardinality(StaticKeys(sf))
        unusedStaticCount ==
            Cardinality({k \in StaticKeys(sf) : CountsAsUnused(sf[k[1]][k[2]])})
    IN  [TotalGlobal |-> totalGlobal,
         UnusedGlobal |-> unusedGlobalCount,
         TotalStatic |-> totalStatic,
         UnusedStatic |-> unusedStaticCount,
         GlobalUsagePercentage |->
             UsagePercentage(totalGlobal - unusedGlobalCount, totalGlobal),
         StaticUsagePercentage |->
             UsagePercentage(totalStatic - unusedStaticCount, totalStatic)]

\* the sequences that hold every element of S once (a map is ranged over in
\* an order the runtime picks)
OrderingsOf(S) ==
    {q \in [1..Cardinality(S) -> S] : \A x \in S : \E i \in DOMAIN q : q[i] = x}

\* the DeclarationInfo values the first loop of GetUnusedDeclarations appends
UnusedGlobalInfos(gf) ==
    {[Name |-> gf[n].Name, File |-> gf[n].File] : n \in {x \in DOMAIN gf : ListedAsUnused(gf[x])}}

\* the DeclarationInfo values the second loop appends (File is the map key)
UnusedStaticInfos(sf) ==
    {[Name |-> sf[k[1]][k[2]].Name, File |-> k[1]] :
        k \in {x \in StaticKeys(sf) : ListedAsUnused(sf[x[1]][x[2]])}}

\* the nested loop appends the entries of one file next to one another
GroupedByFile(q) ==
    \A i, j, k \in DOMAIN q : (i < j /\ j < k /\ q[i].File = q[k].File) => q[j].File = q[i].File

CalculateStatistics ==
    /\ mainPC = "stats"
    /\ stats' = StatisticsOf(globalFunctions, staticFunctions)
    /\ mainPC' = "unused"
    /\ UNCHANGED <<input, walkIdx, hist, logFile, mainPhase, prgFiles, sendIdx, fileCh,
                   chClosed, wg, wk, declMutex, globalFunctions, staticFunctions,
                   bar, unusedGlobal, unusedStatic>>

GetUnusedDeclarations ==
    /\ mainPC = "unused"
    /\ unusedGlobal' \in OrderingsOf(UnusedGlobalInfos(globalFunctions))
    /\ unusedStatic' \in {q \in OrderingsOf(UnusedStaticInfos(staticFunctions)) :
                             GroupedByFile(q)}
    /\ mainPC' = "log"
    /\ UNCHANGED <<input, walkIdx, hist, logFile, mainPhase, prgFiles, sendIdx, fileCh,
                   chClosed, wg, wk, declMutex, globalFunctions, staticFunctions,
                   bar, stats>>

\* what the file system does to GenerateLog: everything works, os.Create
\* fails, or os.Create works and a WriteString fails
LogOutcomes == {"ok", "createFails", "writeFails"}

\* the output file GenerateLog leaves behind
LogFileAfter(outcome) ==
    CASE outcome = "ok" -> "complete"
      [] outcome = "createFails" -> "absent"
      [] outcome = "writeFails" -> "incomplete"

\* GenerateLog returns a non-nil error: only the error of os.Create is
\* returned, the results of WriteString are dropped
GenerateLogFails(outcome) == outcome = "createFails"

\* GenerateLog, then log.Fatalf on an error or the closing message of main
GenerateLog ==
    /\ mainPC = "log"
    /\ \E outcome \in LogOutcomes :
          /\ logFile' = LogFileAfter(outcome)
          /\ mainPC' = IF GenerateLogFails(outcome) THEN "fatal" ELSE "done"
    /\ UNCHANGED <<input, walkIdx, hist, mainPhase, prgFiles, sendIdx, fileCh,
                   chClosed, wg, wk, declMutex, globalFunctions, staticFunctions,
                   bar, stats, unusedGlobal, unusedStatic>>

Next ==
    \/ SearchPRGFiles
    \/ StartWorkers
    \/ SendFile
    \/ CloseChannel
    \/ WaitWorkers
    \/ \E ph \in Phases, i \in Workers : Receive(ph, i)
    \/ \E ph \in Phases, i \in Workers : WorkerExit(ph, i)
    \/ \E i \in Workers : ReadForDeclarations(i)
    \/ \E i \in Workers : LockDecl(i)
    \/ \E i \in Workers : LoadEntry(i)
    \/ \E i \in Workers : RegisterDecl(i)
    \/ \E i \in Workers : ReadForUsage(i)
    \/ \E i \in Workers : CountGlobal(i)
    \/ \E i \in Workers : CountStatic(i)
    \/ \E ph \in Phases, i \in Workers : BarIncrement(ph, i)
    \/ CalculateStatistics
    \/ GetUnusedDeclarations
    \/ GenerateLog

Spec == Init /\ [][Next]_vars

\* the entries a tree under src may hold, in the order WalkDir visits them
\* (depth first, the names of a directory in byte order), each with the
\* index of its directory
WalkUniverse ==
    << Visit("src", <<"s","r","c">>, TRUE, FALSE),
       Visit("src/B.PRG", <<"B",".","P","R","G">>, FALSE, FALSE),
       Visit("src/a.prg", <<"a">> \o ExtPrg, FALSE, FALSE),
       Visit("src/notes.txt", <<"n","o","t","e","s",".","t","x","t">>, FALSE, FALSE),
       Visit("src/sub", <<"s","u","b">>, TRUE, FALSE),
       Visit("src/sub/.prg", ExtPrg, FALSE, FALSE),
       Visit("src/sub/deep", <<"d","e","e","p">>, TRUE, FALSE),
       Visit("src/sub/deep/d.prg", <<"d">> \o ExtPrg, FALSE, FALSE),
       Visit("src/sub/e.prgx", <<"e">> \o ExtPrg \o <<"x">>, FALSE, FALSE),
       Visit("src/x.prg", <<"x">> \o ExtPrg, TRUE, FALSE),
       Visit("src/x.prg/c.Prg", <<"c",".","P","r","g">>, FALSE, FALSE),
       Visit("src/x.prg/prg", <<"p","r","g">>, FALSE, FALSE) >>
DirectoryOf == <<0, 1, 1, 1, 1, 5, 5, 7, 5, 1, 10, 10>>

\* the trees made of entries of the universe: the root, and with an entry
\* the directory that holds it
TreeShapes ==
    {c \in SUBSET (1..Len(WalkUniverse)) :
        /\ 1 \in c
        /\ \A k \in c : k = 1 \/ DirectoryOf[k] \in c}

\* the calls WalkDir makes on the tree that holds the entries c: one for each
\* entry, in the order of the universe
RECURSIVE WalkCalls(_, _)
WalkCalls(c, k) ==
    IF k > Len(WalkUniverse) THEN <<>>
    ELSE (IF k \in c THEN <<WalkUniverse[k]>> ELSE <<>>) \o WalkCalls(c, k + 1)

\* SearchPRGFiles on a readable tree, nothing after it
InitWalk ==
    /\ tree \in {WalkCalls(c, 1) : c \in TreeShapes}
    /\ content = [f \in Files |-> <<>>]
    /\ unreadable = {}
    /\ InitRun

SpecWalk == InitWalk /\ [][SearchPRGFiles]_vars

\* the lines declRegex is checked on, as texts of a.prg
\*   STATIC   PROCEDURE Foo
LnStaticUpper == SP \o SP \o <<"S","T","A","T","I","C">> \o SP \o SP \o SP
                 \o <<"P","R","O","C","E","D","U","R","E">> \o SP \o NmFoo
\* x function Foo
LnTokenBefore == <<"x">> \o SP \o LnFunctionFoo
\* staticfunction Foo
LnStaticGlued == KwStatic \o LnFunctionFoo
\* static Foo
LnNoKeyword == KwStatic \o SP \o NmFoo
\* functionFoo
LnKeywordGlued == KwFunction \o NmFoo
\* function Foo function B
LnTwoOnLine == LnFunctionFoo \o SP \o KwFunction \o SP \o NmB
\* // function Foo
LnComment == <<"/", "/">> \o SP \o LnFunctionFoo
\* function static
LnNamedStatic == KwFunction \o SP \o KwStatic
\* <tab>Procedure b_1(x)
LnTabProcedure == <<"\t", "P">> \o Tail(KwProcedure) \o SP \o SP
                  \o <<"b","_","1","(","x",")">>
\* static function
LnStaticNoName == KwStatic \o SP \o KwFunction
\* procedure é
LnAccentOnly == KwProcedure \o SP \o <<"é">>

LinePool ==
    { LnFunctionFoo, LnStaticUpper, LnTokenBefore, LnStaticGlued, LnNoKeyword,
      KwFunction, LnKeywordGlued, LnTwoOnLine, LnComment, LnNamedStatic,
      LnTabProcedure, LnStaticNoName, LnAccentOnly, LnAccent, SrcStaticOnly,
      SrcTwoDecls, SrcStaticTwice }

\* a run over a.prg holding one of the lines and b.prg holding calls only
InitLines ==
    /\ tree = <<VRoot, VFileA, VFileB>>
    /\ content \in [Files -> LinePool \cup {SrcCalls}]
    /\ content["a.prg"] \in LinePool
    /\ content["b.prg"] = SrcCalls
    /\ unreadable = {}
    /\ InitRun

SpecLines == InitLines /\ [][Next]_vars

\* the runs termination is checked on: every tree, two texts per file
InitLive ==
    /\ Init
    /\ \A f \in Files : content[f] \in {<<>>, SrcDeclCall, SrcStaticUsed}

\* the steps that read no file
StepButRead ==
    \/ SearchPRGFiles
    \/ StartWorkers
    \/ SendFile
    \/ CloseChannel
    \/ WaitWorkers
    \/ \E ph \in Phases, i \in Workers : Receive(ph, i)
    \/ \E ph \in Phases, i \in Workers : WorkerExit(ph, i)
    \/ \E i \in Workers : LockDecl(i)
    \/ \E i \in Workers : LoadEntry(i)
    \/ \E i \in Workers : RegisterDecl(i)
    \/ \E i \in Workers : CountGlobal(i)
    \/ \E i \in Workers : CountStatic(i)
    \/ \E ph \in Phases, i \in Workers : BarIncrement(ph, i)
    \/ CalculateStatistics
    \/ GetUnusedDeclarations
    \/ GenerateLog

\* weak fairness of the step that reads the file a worker holds; the step is
\* possible exactly when the worker stands before os.ReadFile
ReadFairness ==
    \A i \in Workers :
        /\ \/ []<>(wk["decl"][i].pc # "read")
           \/ []<><<ReadForDeclarations(i)>>_vars
        /\ \/ []<>(wk["use"][i].pc # "read")
           \/ []<><<ReadForUsage(i)>>_vars

\* the Go scheduler runs a goroutine that can take a step: as long as some
\* step of main or of a worker is possible, one is taken
FairSpec == InitLive /\ [][Next]_vars /\ WF_vars(StepButRead) /\ ReadFairness

(***************************************************************************)
(* Vocabulary of the properties: what the scanned text holds.              *)
(***************************************************************************)
\* main is past wg.Wait() of the usage phase
AfterUsage == mainPC \in {"stats", "unused", "log", "done"}
\* main holds the results of GetUnusedDeclarations
Finished == mainPC \in {"log", "done"}
\* the extraction phase has returned and the usage workers are not started yet
ExtractionReturned == mainPhase = "use" /\ mainPC = "start"

ElementsOf(q) == {q[i] : i \in DOMAIN q}
LinesOfFile(f) == SplitLines(content[f])

\* the lines of f that declare `name` (as written) with the given scope
DeclLines(f, name, static) ==
    {i \in DOMAIN LinesOfFile(f) :
        LET m == FindDecl(LinesOfFile(f)[i])
        IN  m.ok /\ m.static = static /\ m.name = name}

\* the tokens of f equal to the lower-cased name
TokenCount(f, name) == FreqOf(Tokens(content[f]), ToLower(name))

\* the declared name of line i of f is a token of its own (no letter or digit
\* follows it directly)
NameIsToken(f, i) ==
    LET m == FindDecl(LinesOfFile(f)[i])
    IN  m.ok /\ FreqOf(Tokens(LinesOfFile(f)[i]), ToLower(m.name)) > 0

RECURSIVE SumOverFiles(_, _)
SumOverFiles(Op(_), k) ==
    IF k = 0 THEN 0 ELSE Op(prgFiles[k]) + SumOverFiles(Op, k - 1)

\* the global declaration lines of `name` over all files
GlobalDeclCount(name) ==
    LET Op(f) == Cardinality(DeclLines(f, name, FALSE))
    IN  SumOverFiles(Op, Len(prgFiles))

\* the global declaration lines of `name` in the files the extraction phase read
GlobalDeclCountRead(name) ==
    LET Op(f) == IF ReadFails("decl", f) THEN 0
                 ELSE Cardinality(DeclLines(f, name, FALSE))
    IN  SumOverFiles(Op, Len(prgFiles))

\* the tokens equal to the lower-cased name, over all files, that are not the
\* name of a global declaration line of `name`
TokensBesideGlobalDecl(name) ==
    LET Op(f) == TokenCount(f, name)
                 - Cardinality({i \in DeclLines(f, name, FALSE) : NameIsToken(f, i)})
    IN  SumOverFiles(Op, Len(prgFiles))

(***************************************************************************)
(* C2: no usage task starts before every extraction task has completed,    *)
(* and statistics and the unused lists are not computed before every usage *)
(* task has completed (each Process*Concurrently returns after its         *)
(* workers).                                                               *)
(***************************************************************************)
PhaseComplete(ph) ==
    /\ \A i \in Workers : wk[ph][i].pc = "exited"
    /\ fileCh[ph] = <<>>
    /\ chClosed[ph]
    /\ bar[ph] = Len(prgFiles)

C2_PhaseBarrier ==
    /\ (\E i \in Workers : wk["use"][i].pc # "idle") => PhaseComplete("decl")
    /\ AfterUsage => PhaseComplete("decl") /\ PhaseComplete("use")

\* a usage task is counting while both files went through extraction
C2_Witness ==
    /\ \E i \in Workers : wk["use"][i].pc = "globals" /\ wk["use"][i].file = "a.prg"
    /\ "b.prg" \in DOMAIN staticFunctions
    /\ bar["decl"] = 2

(***************************************************************************)
(* C3: a global declared by exactly one declaration line, whose lower-     *)
(* cased name equals no other whole token of any scanned file, ends both   *)
(* phases with usageCount 1 and is in the unused-global list.              *)
(***************************************************************************)
DeclaredOnceNeverMentioned(name) ==
    /\ GlobalDeclCount(name) = 1
    /\ TokensBesideGlobalDecl(name) = 0

C3_UnreferencedGlobalUnused ==
    AfterUsage =>
        \A name \in DOMAIN globalFunctions :
            DeclaredOnceNeverMentioned(name) =>
                /\ globalFunctions[name].UsageCount = 1
                /\ Finished =>
                      [Name |-> name, File |-> globalFunctions[name].File]
                          \in ElementsOf(unusedGlobal)

\* Foo is declared once, the other file holds the token FooB only
C3_Witness ==
    /\ mainPC = "done"
    /\ content["a.prg"] = SrcDecl
    /\ content["b.prg"] = SrcStaticOnly
    /\ NmFoo \in DOMAIN globalFunctions
    /\ DeclaredOnceNeverMentioned(NmFoo)
    /\ bar["use"] = 2
    /\ unreadable = {}

(***************************************************************************)
(* The result of one worker processing the files one after the other in    *)
(* list order: what a run is compared with.                                *)
(***************************************************************************)
RECURSIVE ApplyMatches(_, _, _)
ApplyMatches(tab, file, ms) ==
    IF ms = <<>> THEN tab
    ELSE ApplyMatches(CriticalSection(tab.g, tab.s, file, Head(ms)), file, Tail(ms))

\* the two maps after the extraction of the first k files, in order
RECURSIVE SequentialExtraction(_)
SequentialExtraction(k) ==
    IF k = 0 THEN [g |-> <<>>, s |-> <<>>]
    ELSE LET f == prgFiles[k]
         IN  IF ReadFails("decl", f) THEN SequentialExtraction(k - 1)
             ELSE ApplyMatches(SequentialExtraction(k - 1), f,
                               MatchesOf(SplitLines(content[f])))

\* what the usage tasks of all files add to a global entry
UsageOfGlobal(decl) ==
    LET Op(f) == IF ReadFails("use", f) THEN 0
                 ELSE GlobalCount(Tokens(content[f]), f, decl)
    IN  SumOverFiles(Op, Len(prgFiles))

\* what the usage task of its file adds to a static entry
UsageOfStatic(decl) ==
    IF ReadFails("use", decl.File) THEN 0
    ELSE StaticCount(Tokens(content[decl.File]), decl)

\* the final maps of the sequential run
SequentialResult ==
    LET t == SequentialExtraction(Len(prgFiles))
    IN  [g |-> [n \in DOMAIN t.g |->
                   [t.g[n] EXCEPT !.UsageCount = @ + UsageOfGlobal(t.g[n])]],
         s |-> [f \in DOMAIN t.s |-> [n \in DOMAIN t.s[f] |->
                   [t.s[f][n] EXCEPT !.UsageCount = @ + UsageOfStatic(t.s[f][n])]]]]

\* every file is readable in both phases or in none
SameReadability ==
    \A f \in Files : ReadFails("decl", f) <=> ReadFails("use", f)

(***************************************************************************)
(* C1: for a fixed set of readable files, every assignment of files to     *)
(* workers and every interleaving ends with the same usageCount for every  *)
(* global and static declaration and the same unused-global and            *)
(* unused-static sets: those of the sequential run.                        *)
(***************************************************************************)
C1_ScheduleIndependent ==
    (Finished /\ SameReadability) =>
        LET r == SequentialResult
        IN  /\ DOMAIN globalFunctions = DOMAIN r.g
            /\ \A n \in DOMAIN r.g :
                  globalFunctions[n].UsageCount = r.g[n].UsageCount
            /\ StaticKeys(staticFunctions) = StaticKeys(r.s)
            /\ \A k \in StaticKeys(r.s) :
                  staticFunctions[k[1]][k[2]].UsageCount = r.s[k[1]][k[2]].UsageCount
            /\ ElementsOf(unusedGlobal) = UnusedGlobalInfos(r.g)
            /\ ElementsOf(unusedStatic) = UnusedStaticInfos(r.s)

(***************************************************************************)
(* C4: a global whose name occurs as a token at least once outside its own *)
(* declaration line, in its declaring file or in any other file the usage  *)
(* phase reads, ends with usageCount >= 2 and is not in the unused-global  *)
(* list.                                                                   *)
(***************************************************************************)
IsListed(q, name, file) == [Name |-> name, File |-> file] \in ElementsOf(q)

\* tokens of f equal to the lower-cased name that are not the name of a
\* declaration line of that name and scope
TokensBesideDecl(f, name, static) ==
    TokenCount(f, name)
    - Cardinality({i \in DeclLines(f, name, static) : NameIsToken(f, i)})

MentionedBesideDecl(name) ==
    \E f \in Files : ~ReadFails("use", f) /\ TokensBesideDecl(f, name, FALSE) > 0

C4_ReferencedGlobalUsed ==
    Finished =>
        \A name \in DOMAIN globalFunctions :
            MentionedBesideDecl(name) =>
                /\ globalFunctions[name].UsageCount >= 2
                /\ ~IsListed(unusedGlobal, name, globalFunctions[name].File)

(***************************************************************************)
(* C6: usage matching is case-insensitive: a token that differs from the   *)
(* declared name only in letter case, in a file the usage phase reads (the *)
(* declaring file for a static), is counted as a usage, so the declaration *)
(* is reported as used.                                                    *)
(***************************************************************************)
\* the tokens of a text as written (strings.FieldsFunc without strings.ToLower)
RawTokens(text) == FieldsFrom(text, 1, <<>>)

CaseVariantIn(f, name) ==
    /\ ~ReadFails("use", f)
    /\ \E i \in DOMAIN RawTokens(content[f]) :
          /\ RawTokens(content[f])[i] # name
          /\ ToLower(RawTokens(content[f])[i]) = ToLower(name)

C6_CaseInsensitiveUsage ==
    Finished =>
        /\ \A name \in DOMAIN globalFunctions :
              (\E f \in Files : CaseVariantIn(f, name)) =>
                  /\ globalFunctions[name].UsageCount >= 2
                  /\ ~IsListed(unusedGlobal, name, globalFunctions[name].File)
        /\ \A k \in StaticKeys(staticFunctions) :
              CaseVariantIn(k[1], k[2]) =>
                  /\ staticFunctions[k[1]][k[2]].UsageCount >= 2
                  /\ ~IsListed(unusedStatic, k[2], k[1])

(***************************************************************************)
(* C9: a static declared once in file F whose name occurs k more times as  *)
(* a token in F ends (F being read by the usage phase) with usageCount     *)
(* 1 + k and is listed as unused exactly when k = 0.                       *)
(***************************************************************************)
C9_StaticCountsOwnFile ==
    Finished =>
        \A key \in StaticKeys(staticFunctions) :
            LET f == key[1]
                n == key[2]
                k == TokensBesideDecl(f, n, TRUE)
            IN  (Cardinality(DeclLines(f, n, TRUE)) = 1 /\ ~ReadFails("use", f)) =>
                    /\ staticFunctions[f][n].UsageCount = 1 + k
                    /\ IsListed(unusedStatic, n, f) <=> (k = 0)

(***************************************************************************)
(* C5: a static declaration's usageCount is changed only by the usage task *)
(* of its own declaring file, one entry at a time; tokens of other files   *)
(* never change it, and two files declaring a static of the same name hold *)
(* two entries with counters of their own.                                 *)
(***************************************************************************)
\* the names the extraction phase registers as statics of f
StaticNamesRead(f) ==
    IF ReadFails("decl", f) THEN {}
    ELSE {m.name : m \in {x \in ElementsOf(MatchesOf(LinesOfFile(f))) : x.static}}

StaticEntriesPerFile ==
    (ExtractionReturned \/ AfterUsage) =>
        /\ StaticKeys(staticFunctions) =
              {k \in Files \X UNION {StaticNamesRead(f) : f \in Files} :
                  k[2] \in StaticNamesRead(k[1])}
        /\ AfterUsage =>
              \A k \in StaticKeys(staticFunctions) :
                  staticFunctions[k[1]][k[2]].UsageCount =
                      1 + UsageOfStatic([Name |-> k[2], File |-> k[1]])

StaticChangedByOwnTask ==
    \A k \in StaticKeys(staticFunctions) \cap StaticKeys(staticFunctions') :
        staticFunctions'[k[1]][k[2]].UsageCount # staticFunctions[k[1]][k[2]].UsageCount =>
            /\ \E i \in Workers :
                  /\ wk["use"][i].pc = "statics"
                  /\ wk["use"][i].file = k[1]
                  /\ wk'["use"][i] # wk["use"][i]
            /\ \A o \in (StaticKeys(staticFunctions) \cap StaticKeys(staticFunctions')) \ {k} :
                  staticFunctions'[o[1]][o[2]] = staticFunctions[o[1]][o[2]]

C5_StaticOwnFileOnly == [](StaticEntriesPerFile) /\ [][StaticChangedByOwnTask]_vars

\* both files declare static Foo; a.prg uses it twice, b.prg declares it twice
C5_Witness ==
    /\ mainPC = "done"
    /\ content["a.prg"] = SrcStaticUsed
    /\ content["b.prg"] = SrcStaticTwice
    /\ StaticKeys(staticFunctions) = {<<"a.prg", NmFoo>>, <<"b.prg", NmFoo>>}
    /\ staticFunctions["a.prg"][NmFoo].UsageCount = 3
    /\ staticFunctions["b.prg"][NmFoo].UsageCount = 2

(***************************************************************************)
(* C7: a global's identity is its name: when the name is declared global   *)
(* on several lines (of one file or of several) the table holds exactly    *)
(* one entry for it, whose usageCount after extraction is the number of    *)
(* its declaration lines (one, plus one per additional declaration).       *)
(***************************************************************************)
\* the names the extraction phase registers as globals
GlobalNamesRead ==
    UNION {IF ReadFails("decl", f) THEN {}
           ELSE {m.name : m \in {x \in ElementsOf(MatchesOf(LinesOfFile(f))) : ~x.static}}
           : f \in Files}

C7_DuplicateGlobalIncrements ==
    ExtractionReturned =>
        /\ DOMAIN globalFunctions = GlobalNamesRead
        /\ \A name \in GlobalNamesRead :
              /\ Cardinality({k \in DOMAIN globalFunctions :
                                 globalFunctions[k].Name = name}) = 1
              /\ globalFunctions[name].UsageCount = GlobalDeclCountRead(name)
              /\ ~globalFunctions[name].Static

\* Foo is declared on two lines of a.prg and on one line of b.prg
C7_Witness ==
    /\ ExtractionReturned
    /\ content["a.prg"] = SrcDeclTwice
    /\ content["b.prg"] = SrcDecl
    /\ DOMAIN globalFunctions = {NmFoo}
    /\ globalFunctions[NmFoo].UsageCount = 3

(***************************************************************************)
(* C8, as claimed: a static declared twice in the same file ends the run   *)
(* as if it had been declared once: the usageCount and the classification  *)
(* a single declaration gives (1 plus the tokens beside the declaration,   *)
(* unused when there are none).                                            *)
(***************************************************************************)
DeclaredStaticTwice(f, n) ==
    Cardinality(DeclLines(f, n, TRUE)) >= 2 /\ ~ReadFails("use", f)

C8_DuplicateStaticAsSingle ==
    Finished =>
        \A k \in StaticKeys(staticFunctions) :
            DeclaredStaticTwice(k[1], k[2]) =>
                /\ staticFunctions[k[1]][k[2]].UsageCount =
                      1 + TokensBesideDecl(k[1], k[2], TRUE)
                /\ IsListed(unusedStatic, k[2], k[1])
                      <=> (TokensBesideDecl(k[1], k[2], TRUE) = 0)

(***************************************************************************)
(* C8, amended: a static declared twice in the same file leaves extraction *)
(* as a single declaration would (one entry for (file, name), usageCount   *)
(* 1), but the usage task discounts one declaration line only: the final   *)
(* usageCount is max(t, 1), t the tokens of the file equal to the          *)
(* lower-cased name, declaration lines included, so a second declaration   *)
(* line whose name is a token counts as a use and the symbol is not listed *)
(* as unused.                                                              *)
(***************************************************************************)
MaxOf(a, b) == IF a >= b THEN a ELSE b

C8_DuplicateStaticCountsAsUse ==
    /\ ExtractionReturned =>
          \A k \in StaticKeys(staticFunctions) :
              staticFunctions[k[1]][k[2]] =
                  [Name |-> k[2], File |-> k[1], Static |-> TRUE, UsageCount |-> 1]
    /\ Finished =>
          \A k \in StaticKeys(staticFunctions) :
              DeclaredStaticTwice(k[1], k[2]) =>
                  /\ staticFunctions[k[1]][k[2]].UsageCount =
                        MaxOf(TokenCount(k[1], k[2]), 1)
                  /\ (\A i \in DeclLines(k[1], k[2], TRUE) : NameIsToken(k[1], i)) =>
                        /\ staticFunctions[k[1]][k[2]].UsageCount >= 2
                        /\ ~IsListed(unusedStatic, k[2], k[1])

\* static Foo is declared twice in a.prg and mentioned nowhere else
C8_Witness ==
    /\ mainPC = "done"
    /\ content["a.prg"] = SrcStaticTwice
    /\ content["b.prg"] = SrcStaticOnly
    /\ unreadable = {}
    /\ staticFunctions["a.prg"][NmFoo].UsageCount = 2
    /\ ~IsListed(unusedStatic, NmFoo, "a.prg")

(***************************************************************************)
(* C10: the unused-global and unused-static lists hold exactly the (name,  *)
(* file) pairs of the declarations whose final usageCount is <= 1, each    *)
(* once, and Statistics.UnusedGlobal and Statistics.UnusedStatic are the   *)
(* lengths of the two lists.                                               *)
(***************************************************************************)
C10_UnusedListsMatch ==
    Finished =>
        /\ ElementsOf(unusedGlobal) =
              {[Name |-> globalFunctions[n].Name, File |-> globalFunctions[n].File] :
                  n \in {x \in DOMAIN globalFunctions :
                            globalFunctions[x].UsageCount <= 1}}
        /\ Len(unusedGlobal) = Cardinality(ElementsOf(unusedGlobal))
        /\ ElementsOf(unusedStatic) =
              {[Name |-> staticFunctions[k[1]][k[2]].Name,
                File |-> staticFunctions[k[1]][k[2]].File] :
                  k \in {x \in StaticKeys(staticFunctions) :
                            staticFunctions[x[1]][x[2]].UsageCount <= 1}}
        /\ Len(unusedStatic) = Cardinality(ElementsOf(unusedStatic))
        /\ stats.UnusedGlobal = Len(unusedGlobal)
        /\ stats.UnusedStatic = Len(unusedStatic)

\* global Foo and static B are unused, global B is used
C10_Witness ==
    /\ mainPC = "done"
    /\ Len(unusedGlobal) = 1
    /\ Len(unusedStatic) = 1
    /\ stats.TotalGlobal = 2
    /\ stats.UnusedGlobal = 1
    /\ stats.UnusedStatic = 1

(***************************************************************************)
(* C11: CalculateStatistics reports, for each scope, the number of entries *)
(* as the total, the number of entries with usageCount <= 1 as unused, and *)
(* (total - unused) / total * 100 as the usage percentage, 0 when the      *)
(* total is 0.  Two globals of which one is referenced once from another   *)
(* file give TotalGlobal 2, UnusedGlobal 1 and 50 percent.                 *)
(***************************************************************************)
\* main holds the result of CalculateStatistics
StatsComputed == mainPC \in {"unused", "log", "done"}

\* pct is (total - unused) / total * 100 in hundredths of a percent, rounded
\* down, and 0 when there is no entry
IsPercentage(pct, total, unused) ==
    IF total = 0 THEN pct = 0
    ELSE /\ pct * total <= (total - unused) * 10000
         /\ (total - unused) * 10000 < (pct + 1) * total

\* a.prg declares Foo and B, b.prg calls B once, every read succeeds
TwoGlobalsOneCalled ==
    /\ tree = <<VRoot, VFileA, VFileB>>
    /\ content["a.prg"] = SrcTwoDecls
    /\ content["b.prg"] = SrcCallB
    /\ unreadable = {}

C11_StatisticsCounts ==
    StatsComputed =>
        LET tg == Cardinality(DOMAIN globalFunctions)
            ug == Cardinality({n \in DOMAIN globalFunctions :
                                  globalFunctions[n].UsageCount <= 1})
            ts == Cardinality(StaticKeys(staticFunctions))
            us == Cardinality({k \in StaticKeys(staticFunctions) :
                                  staticFunctions[k[1]][k[2]].UsageCount <= 1})
        IN  /\ stats.TotalGlobal = tg
            /\ stats.UnusedGlobal = ug
            /\ stats.TotalStatic = ts
            /\ stats.UnusedStatic = us
            /\ IsPercentage(stats.GlobalUsagePercentage, tg, ug)
            /\ IsPercentage(stats.StaticUsagePercentage, ts, us)
            /\ TwoGlobalsOneCalled =>
                   /\ stats.TotalGlobal = 2
                   /\ stats.UnusedGlobal = 1
                   /\ stats.GlobalUsagePercentage = 5000

\* the scenario has run: two globals, one unused, 50 percent; no static at all
C11_Witness ==
    /\ mainPC = "done"
    /\ TwoGlobalsOneCalled
    /\ stats.TotalGlobal = 2
    /\ stats.UnusedGlobal = 1
    /\ stats.GlobalUsagePercentage = 5000
    /\ stats.TotalStatic = 0
    /\ stats.StaticUsagePercentage = 0

(***************************************************************************)
(* C12: a declaration's usageCount is 1 when its entry is created, is at   *)
(* least 1 in every reachable state and never decreases; a usage task adds *)
(* the occurrences of the name among the tokens of its file, one less when *)
(* the file is the declaring file, and nothing when that leaves zero or    *)
(* the name does not occur.                                                *)
(***************************************************************************)
CountsAtLeastOne ==
    /\ \A n \in DOMAIN globalFunctions : globalFunctions[n].UsageCount >= 1
    /\ \A k \in StaticKeys(staticFunctions) :
           staticFunctions[k[1]][k[2]].UsageCount >= 1

\* what is added for occ occurrences of the name in the file of the task
AddedFor(occ, declaringFile) ==
    IF declaringFile THEN (IF occ >= 1 THEN occ - 1 ELSE 0) ELSE occ

\* the entry a worker at w took from its todo set in the step to w2
PickedBy(w, w2) ==
    {x \in w.todo : w.todo = {x} \/ (w2.pc = w.pc /\ w2.todo = w.todo \ {x})}

CountsGrowOnly ==
    /\ \A n \in DOMAIN globalFunctions' :
           IF n \in DOMAIN globalFunctions
           THEN globalFunctions'[n].UsageCount >= globalFunctions[n].UsageCount
           ELSE globalFunctions'[n].UsageCount = 1
    /\ DOMAIN globalFunctions \subseteq DOMAIN globalFunctions'
    /\ \A k \in StaticKeys(staticFunctions') :
           IF k \in StaticKeys(staticFunctions)
           THEN staticFunctions'[k[1]][k[2]].UsageCount
                    >= staticFunctions[k[1]][k[2]].UsageCount
           ELSE staticFunctions'[k[1]][k[2]].UsageCount = 1
    /\ StaticKeys(staticFunctions) \subseteq StaticKeys(staticFunctions')

UsageTaskAddsDiscounted ==
    \A i \in Workers :
        LET w  == wk["use"][i]
            w2 == wk'["use"][i]
        IN  /\ (w.pc = "globals" /\ w2 # w) =>
                   \E n \in PickedBy(w, w2) :
                       /\ globalFunctions'[n].UsageCount =
                             globalFunctions[n].UsageCount
                             + AddedFor(FreqOf(w.tokens, ToLower(n)),
                                        w.file = globalFunctions[n].File)
                       /\ \A x \in DOMAIN globalFunctions \ {n} :
                             globalFunctions'[x] = globalFunctions[x]
                       /\ staticFunctions' = staticFunctions
            /\ (w.pc = "statics" /\ w2 # w) =>
                   \E k \in PickedBy(w, w2) :
                       /\ k[1] = w.file
                       /\ staticFunctions'[k[1]][k[2]].UsageCount =
                             staticFunctions[k[1]][k[2]].UsageCount
                             + AddedFor(FreqOf(w.tokens, ToLower(k[2])), TRUE)
                       /\ \A x \in StaticKeys(staticFunctions) \ {k} :
                             staticFunctions'[x[1]][x[2]] = staticFunctions[x[1]][x[2]]
                       /\ globalFunctions' = globalFunctions

C12_UsageCountGrowsFromOne ==
    /\ []CountsAtLeastOne
    /\ [][CountsGrowOnly /\ UsageTaskAddsDiscounted]_vars

\* a.prg = static procedure Foo / Foo() / foo() and b.prg = function Foo:
\* the task of a.prg added 3 - 1 to its static and 3 to the global of b.prg,
\* the task of b.prg found its declaration line only and added nothing
C12_Witness ==
    /\ mainPC = "done"
    /\ unreadable = {}
    /\ content["a.prg"] = SrcStaticUsed
    /\ content["b.prg"] = SrcDecl
    /\ staticFunctions["a.prg"][NmFoo].UsageCount = 3
    /\ globalFunctions[NmFoo].File = "b.prg"
    /\ globalFunctions[NmFoo].UsageCount = 4

(***************************************************************************)
(* C13: a task whose file cannot be read, in the extraction phase or in    *)
(* the usage phase, leaves the symbol table as it is and goes on to the    *)
(* progress bar; no file is read twice in a phase; every other file is     *)
(* still processed; the run goes on to the next phase and is never aborted *)
(* by a read error.                                                        *)
(***************************************************************************)
\* the names the lines of f declare with the given scope
NamesDeclaredIn(f, static) ==
    {m.name : m \in {x \in ElementsOf(MatchesOf(LinesOfFile(f))) : x.static = static}}

FailedTaskLeavesTable ==
    \A ph \in Phases, i \in Workers :
        LET w == wk[ph][i]
        IN  (w.file # NoFile /\ <<ph, w.file>> \in unreadable /\ wk'[ph][i] # w) =>
               /\ globalFunctions' = globalFunctions
               /\ staticFunctions' = staticFunctions
               /\ wk'[ph][i].pc \in {"bar", "recv"}

ReadErrorNeverFatal ==
    mainPC' = "fatal" => mainPC \in {"fatal", "search", "log"}

OthersStillProcessed ==
    /\ \A ph \in Phases, f \in Files : hist[ph][f].reads <= 1
    /\ AfterUsage =>
          \A f \in ElementsOf(prgFiles) :
              /\ hist["decl"][f].reads = 1
              /\ hist["use"][f].reads = 1
              /\ IF <<"decl", f>> \in unreadable
                 THEN /\ f \notin DOMAIN staticFunctions
                      /\ \A n \in DOMAIN globalFunctions : globalFunctions[n].File # f
                 ELSE /\ NamesDeclaredIn(f, FALSE) \subseteq DOMAIN globalFunctions
                      /\ \A n \in NamesDeclaredIn(f, TRUE) :
                            <<f, n>> \in StaticKeys(staticFunctions)
              /\ <<"use", f>> \in unreadable =>
                    \A n \in NamesDeclaredIn(f, TRUE) :
                        <<f, n>> \in StaticKeys(staticFunctions) =>
                            staticFunctions[f][n].UsageCount = 1

C13_UnreadableFileSkipped ==
    /\ []OthersStillProcessed
    /\ [][FailedTaskLeavesTable /\ ReadErrorNeverFatal]_vars

\* a.prg = Static Function B / x := FooB() could not be read in extraction,
\* b.prg = function Foo was: the run is over, B is absent and Foo is there
C13_Witness ==
    /\ mainPC = "done"
    /\ unreadable = {<<"decl", "a.prg">>}
    /\ content["a.prg"] = SrcStaticOnly
    /\ content["b.prg"] = SrcDecl
    /\ staticFunctions = <<>>
    /\ DOMAIN globalFunctions = {NmFoo}
    /\ bar = [ph \in Phases |-> 2]

(***************************************************************************)
(* C14: when the enumeration fails (the root cannot be opened or a         *)
(* directory under it cannot be read) the run aborts before the extraction *)
(* phase: no worker is started, no file is taken, read or counted on the   *)
(* progress bar, the symbol table stays empty, nothing is aggregated and   *)
(* no report is written, whatever paths were collected before the error.   *)
(***************************************************************************)
\* WalkDir reports an error at some entry of the tree
EnumerationFails == \E i \in DOMAIN tree : tree[i].err

C14_EnumerationFailureAborts ==
    EnumerationFails =>
        /\ mainPC \in {"search", "fatal"}
        /\ mainPhase = "none"
        /\ \A j \in 1..(walkIdx - 1) : ~tree[j].err
        /\ \A ph \in Phases :
              /\ \A i \in Workers : wk[ph][i] = IdleWorker
              /\ \A f \in Files : hist[ph][f] = NoHistory
              /\ bar[ph] = 0
              /\ fileCh[ph] = <<>>
        /\ globalFunctions = <<>>
        /\ staticFunctions = <<>>
        /\ stats = NoStats
        /\ unusedGlobal = <<>> /\ unusedStatic = <<>>
        /\ logFile = "absent"

\* the walk collected a.prg, then met the unreadable directory: main is in
\* log.Fatalf
C14_Witness ==
    /\ tree = <<VRoot, VFileA, VSub, VSubErr>>
    /\ prgFiles = <<"a.prg">>
    /\ mainPC = "fatal"

(***************************************************************************)
(* C15: when the report builder cannot create its output file or cannot    *)
(* write to it, the run ends in the fatal outcome and never announces      *)
(* success, and the symbol table is the one the statistics were computed   *)
(* from.                                                                   *)
(***************************************************************************)
\* main is past GenerateLog
ReportAttempted == mainPC \in {"done", "fatal"} /\ ~EnumerationFails

C15_ReportFailureIsFatal ==
    ReportAttempted =>
        /\ logFile # "complete" => mainPC = "fatal"
        /\ mainPC = "done" => logFile = "complete"
        /\ stats = StatisticsOf(globalFunctions, staticFunctions)

(***************************************************************************)
(* C16: in each phase every file of the located list is taken from the     *)
(* channel by exactly one worker and processed exactly once, and the       *)
(* progress bar is advanced exactly once per file, also for a file whose   *)
(* read failed, so the bar stands at len(files) when the phase returns.    *)
(***************************************************************************)
\* Process*Concurrently of the phase has returned
PhaseReturned(ph) ==
    \/ ph = "decl" /\ mainPhase = "use"
    \/ mainPC \in {"stats", "unused", "log", "done"}
    \/ mainPC = "fatal" /\ ~EnumerationFails

C16_EachFileOncePerPhase ==
    \A ph \in Phases :
        /\ \A f \in Files :
              /\ hist[ph][f].takes <= 1
              /\ hist[ph][f].reads <= hist[ph][f].takes
              /\ hist[ph][f].advances <= hist[ph][f].reads
              /\ Cardinality({i \in Workers : wk[ph][i].file = f}) <= 1
              /\ hist[ph][f].takes = 1 => f \in ElementsOf(prgFiles)
        /\ bar[ph] = Cardinality({f \in Files : hist[ph][f].advances = 1})
        /\ PhaseReturned(ph) =>
              /\ \A f \in ElementsOf(prgFiles) :
                    hist[ph][f] = [takes |-> 1, reads |-> 1, advances |-> 1]
              /\ bar[ph] = Len(prgFiles)

\* the extraction phase has returned with b.prg unreadable: the bar of the
\* phase stands at 2 and b.prg was advanced once
C16_Witness ==
    /\ ExtractionReturned
    /\ unreadable = {<<"decl", "b.prg">>}
    /\ hist["decl"]["b.prg"] = [takes |-> 1, reads |-> 1, advances |-> 1]
    /\ hist["decl"]["a.prg"] = [takes |-> 1, reads |-> 1, advances |-> 1]
    /\ bar["decl"] = 2

(***************************************************************************)
(* C17: the phase of the engine moves along Idle, Locating, Extracting,    *)
(* CountingUsage, Aggregating, Done, one phase at a time and never back;   *)
(* once the file list is located, be it empty or shorter than the number   *)
(* of workers, every worker of both phases eventually exits and the engine *)
(* eventually is Done.                                                     *)
(***************************************************************************)
\* the position of the engine in Idle (0), Locating (1), Extracting (2),
\* CountingUsage (3), Aggregating (4), Done (5); a run that log.Fatalf ended
\* stays in the phase it was in
PhaseRank ==
    CASE mainPC = "search" -> (IF walkIdx = 1 THEN 0 ELSE 1)
      [] mainPC = "fatal" -> (IF EnumerationFails THEN 1 ELSE 5)
      [] mainPC \in {"stats", "unused"} -> 4
      [] mainPC \in {"log", "done"} -> 5
      [] OTHER -> (IF mainPhase = "decl" THEN 2 ELSE 3)

PhaseMovesForward == PhaseRank' \in {PhaseRank, PhaseRank + 1}

\* SearchPRGFiles has returned the list without an error
ListLocated == mainPC = "start" /\ mainPhase = "decl"

AllWorkersExited == \A ph \in Phases, i \in Workers : wk[ph][i].pc = "exited"

C17_ForwardAndTerminates ==
    /\ [][PhaseMovesForward]_vars
    /\ ListLocated ~> (PhaseRank = 5 /\ AllWorkersExited)

\* a list of one file, fewer than the workers: the run is over and the
\* workers of both phases have exited
C17_Witness ==
    /\ prgFiles = <<"a.prg">>
    /\ Len(prgFiles) < NumWorkers
    /\ mainPC = "done"
    /\ AllWorkersExited

(***************************************************************************)
(* C18: a line yields a declaration only when, after leading whitespace,   *)
(* it begins with an optional static keyword, then function or procedure   *)
(* in any letter case, then a name; it yields at most one declaration,     *)
(* Static exactly when the static keyword is there and Global otherwise;   *)
(* a line where other text precedes the keyword yields none.               *)
(***************************************************************************)
Positions(line) == 1..(Len(line) + 1)

AllSpace(line, from, to) == \A k \in from..(to - 1) : IsSpace(line[k])

\* the letters of kw, in any case, fill line from p up to q - 1
SpellsKeyword(line, p, q, kw) ==
    /\ q - p = Len(kw)
    /\ q <= Len(line) + 1
    /\ \A k \in 1..Len(kw) :
          \E j \in 1..26 : /\ LowerLetters[j] = kw[k]
                            /\ line[p + k - 1] \in {LowerLetters[j], UpperLetters[j]}

\* line is: whitespace, [static, whitespace,] function or procedure,
\* whitespace, then the name from n up to e - 1, as long as it can be
HasDeclShape(line, static, n, e) ==
    /\ n < e
    /\ \A k \in n..(e - 1) :
          line[k] \in AsciiLower \cup AsciiUpper \cup AsciiDigit \cup {"_"}
    /\ e <= Len(line) =>
          line[e] \notin AsciiLower \cup AsciiUpper \cup AsciiDigit \cup {"_"}
    /\ \E p \in Positions(line) :
          /\ AllSpace(line, 1, p)
          /\ \E q \in Positions(line) :
                /\ IF static
                   THEN \E r \in Positions(line) :
                           /\ SpellsKeyword(line, p, r, KwStatic)
                           /\ r < q
                           /\ AllSpace(line, r, q)
                   ELSE q = p
                /\ \E r \in Positions(line) :
                      /\ \/ SpellsKeyword(line, q, r, KwFunction)
                         \/ SpellsKeyword(line, q, r, KwProcedure)
                      /\ r < n
                      /\ AllSpace(line, r, n)

\* the <<static, name>> pairs the line declares
DeclsOfLine(line) ==
    {<<t[1], SubSeq(line, t[2], t[3] - 1)>> :
        t \in {x \in BOOLEAN \X Positions(line) \X Positions(line) :
                  HasDeclShape(line, x[1], x[2], x[3])}}

C18_DeclarationLineShape ==
    ExtractionReturned =>
        LET f == "a.prg"
            L == LinesOfFile(f)
            D == [i \in DOMAIN L |-> DeclsOfLine(L[i])]
            declared(static) == {d[2] : d \in {x \in UNION {D[i] : i \in DOMAIN L} :
                                                  x[1] = static}}
        IN  /\ \A i \in DOMAIN L : Cardinality(D[i]) <= 1
            /\ DOMAIN globalFunctions = declared(FALSE)
            /\ \A n \in DOMAIN globalFunctions :
                  /\ ~globalFunctions[n].Static
                  /\ globalFunctions[n].UsageCount =
                        Cardinality({i \in DOMAIN L : <<FALSE, n>> \in D[i]})
            /\ StaticKeys(staticFunctions) = {<<f, n>> : n \in declared(TRUE)}
            /\ \A k \in StaticKeys(staticFunctions) :
                  staticFunctions[k[1]][k[2]].Static

\* the line "  STATIC   PROCEDURE Foo" went through extraction: one static
\* entry Foo, no global
C18_Witness ==
    /\ ExtractionReturned
    /\ content["a.prg"] = LnStaticUpper
    /\ StaticKeys(staticFunctions) = {<<"a.prg", NmFoo>>}
    /\ staticFunctions["a.prg"][NmFoo].Static
    /\ globalFunctions = <<>>

(***************************************************************************)
(* C19: on a tree that is readable throughout, SearchPRGFiles returns the  *)
(* entries under the root, at any depth, that are no directories and whose *)
(* name ends with .prg in any letter case: each of them, nothing else (no  *)
(* directory named x.prg), none of them twice.                             *)
(***************************************************************************)
\* the last four characters of name are a dot and p, r, g in either case
EndsWithPrgAnyCase(name) ==
    /\ Len(name) >= 4
    /\ name[Len(name) - 3] = "."
    /\ name[Len(name) - 2] \in {"p", "P"}
    /\ name[Len(name) - 1] \in {"r", "R"}
    /\ name[Len(name)] \in {"g", "G"}

\* SearchPRGFiles has returned without an error
SearchReturned == mainPC = "start" /\ mainPhase = "decl"

C19_SearchReturnsPrgFiles ==
    (SearchReturned /\ ~EnumerationFails) =>
        /\ ElementsOf(prgFiles) =
              {v.path : v \in {x \in ElementsOf(tree) :
                                  ~x.dir /\ EndsWithPrgAnyCase(x.name)}}
        /\ \A i, j \in DOMAIN prgFiles : prgFiles[i] = prgFiles[j] => i = j

\* the whole universe was walked: five sources, among them B.PRG, c.Prg
\* inside the directory x.prg and d.prg three levels down; not x.prg itself
C19_Witness ==
    /\ SearchReturned
    /\ Len(tree) = Len(WalkUniverse)
    /\ prgFiles = <<"src/B.PRG", "src/a.prg", "src/sub/.prg",
                    "src/sub/deep/d.prg", "src/x.prg/c.Prg">>

(***************************************************************************)
(* C20: in the extraction phase the global and the static map are changed  *)
(* only inside a declMutex critical section, one section per matched line; *)
(* at most one worker is inside at a time; no update is lost: after the    *)
(* phase the usageCount of a global is the number of global declaration    *)
(* lines of that exact name in the files that were read, under every       *)
(* interleaving.                                                           *)
(***************************************************************************)
\* worker i is between declMutex.Lock() and declMutex.Unlock()
InCriticalSection(i) == wk["decl"][i].pc \in {"crit", "store"}

OneWorkerInside ==
    /\ Cardinality({i \in Workers : InCriticalSection(i)}) <= 1
    /\ \A i \in Workers : InCriticalSection(i) <=> declMutex = i

NoUpdateLost ==
    ExtractionReturned =>
        /\ \A name \in DOMAIN globalFunctions :
              globalFunctions[name].UsageCount = GlobalDeclCountRead(name)
        /\ \A f \in ElementsOf(prgFiles) :
              <<"decl", f>> \notin unreadable =>
                  NamesDeclaredIn(f, FALSE) \subseteq DOMAIN globalFunctions

MutatedUnderMutex ==
    (mainPhase = "decl" /\ (globalFunctions' # globalFunctions
                              \/ staticFunctions' # staticFunctions)) =>
        \E i \in Workers :
            /\ InCriticalSection(i)
            /\ declMutex = i
            /\ declMutex' = 0
            /\ ~InCriticalSection(i)'
            /\ Len(wk'["decl"][i].matches) = Len(wk["decl"][i].matches) - 1

C20_ExtractionSerialized ==
    /\ [](OneWorkerInside /\ NoUpdateLost)
    /\ [][MutatedUnderMutex]_vars

\* both files declare the global Foo; one worker is inside the critical
\* section for it while the other waits at declMutex.Lock() for its own
C20_Witness ==
    /\ \E i, j \in Workers :
          /\ wk["decl"][i].pc = "store"
          /\ declMutex = i
          /\ wk["decl"][j].pc = "lock"
          /\ Head(wk["decl"][i].matches) = [static |-> FALSE, name |-> NmFoo]
          /\ Head(wk["decl"][j].matches) = [static |-> FALSE, name |-> NmFoo]

(***************************************************************************)
(* C21: additions made to one global counter by the usage tasks of         *)
(* different files are never lost: under every interleaving, once the      *)
(* usage phase has returned, each global entry's usageCount is its value   *)
(* at the end of extraction (the declaration lines read) plus the sum,     *)
(* over the files the usage phase read, of the file's token count for the  *)
(* name, less one in the recorded declaring file when that count is        *)
(* positive.                                                               *)
(***************************************************************************)
\* what the usage task of f has to add to the entry `decl`
DiscountedTokens(f, decl) ==
    IF ReadFails("use", f) THEN 0
    ELSE AddedFor(TokenCount(f, decl.Name), f = decl.File)

SumOfDiscounted(decl) ==
    LET Op(f) == DiscountedTokens(f, decl)
    IN  SumOverFiles(Op, Len(prgFiles))

C21_IncrementsNeverLost ==
    AfterUsage =>
        \A name \in DOMAIN globalFunctions :
            globalFunctions[name].UsageCount =
                GlobalDeclCountRead(name) + SumOfDiscounted(globalFunctions[name])

\* a.prg (function Foo / FOO()) adds 1 and b.prg (foo(); Foo()) adds 2 to
\* the counter of Foo, which extraction left at 1
C21_Witness ==
    /\ mainPC = "done"
    /\ unreadable = {}
    /\ content["a.prg"] = SrcDeclCall
    /\ content["b.prg"] = SrcCalls
    /\ DiscountedTokens("a.prg", globalFunctions[NmFoo]) = 1
    /\ DiscountedTokens("b.prg", globalFunctions[NmFoo]) = 2
    /\ globalFunctions[NmFoo].UsageCount = 4

(***************************************************************************)
(* C22: the usage phase changes nothing but usageCount fields: in every    *)
(* step taken after extraction has returned, the key set of the global     *)
(* map, the key set of every per-file static map and each entry's name,    *)
(* declaring file and scope stay as they are, so after the usage phase     *)
(* they are those of the end of extraction; the steps of                   *)
(* CalculateStatistics and of GetUnusedDeclarations leave both maps,       *)
(* counters included, unchanged.                                           *)
(***************************************************************************)
\* an entry without its counter
Identity(decl) == [Name |-> decl.Name, File |-> decl.File, Static |-> decl.Static]

OnlyCountersMove ==
    /\ DOMAIN globalFunctions' = DOMAIN globalFunctions
    /\ \A n \in DOMAIN globalFunctions :
           Identity(globalFunctions'[n]) = Identity(globalFunctions[n])
    /\ DOMAIN staticFunctions' = DOMAIN staticFunctions
    /\ \A f \in DOMAIN staticFunctions :
           /\ DOMAIN staticFunctions'[f] = DOMAIN staticFunctions[f]
           /\ \A n \in DOMAIN staticFunctions[f] :
                  Identity(staticFunctions'[f][n]) = Identity(staticFunctions[f][n])

UsageFrame ==
    /\ mainPhase = "use" => OnlyCountersMove
    /\ mainPC \in {"stats", "unused"} =>
           /\ globalFunctions' = globalFunctions
           /\ staticFunctions' = staticFunctions

\* the keys and identities extraction builds from the files it read
KeysOfExtraction ==
    /\ DOMAIN globalFunctions = GlobalNamesRead
    /\ \A n \in DOMAIN globalFunctions :
           /\ globalFunctions[n].Name = n
           /\ ~globalFunctions[n].Static
           /\ ~ReadFails("decl", globalFunctions[n].File)
           /\ n \in NamesDeclaredIn(globalFunctions[n].File, FALSE)
    /\ \A f \in Files :
           (IF f \in DOMAIN staticFunctions THEN DOMAIN staticFunctions[f] ELSE {})
               = StaticNamesRead(f)
    /\ \A k \in StaticKeys(staticFunctions) :
           Identity(staticFunctions[k[1]][k[2]]) =
               [Name |-> k[2], File |-> k[1], Static |-> TRUE]

C22_UsageChangesCountersOnly ==
    /\ []((ExtractionReturned \/ AfterUsage) => KeysOfExtraction)
    /\ [][UsageFrame]_vars

\* the run is over; the usage phase raised the counter of the global Foo of
\* b.prg to 5 and that of the static Foo of a.prg to 3
C22_Witness ==
    /\ mainPC = "done"
    /\ unreadable = {}
    /\ content["a.prg"] = SrcStaticUsed
    /\ content["b.prg"] = SrcDeclCall
    /\ globalFunctions[NmFoo] =
           [Name |-> NmFoo, File |-> "b.prg", Static |-> FALSE, UsageCount |-> 5]
    /\ staticFunctions["a.prg"][NmFoo] =
           [Name |-> NmFoo, File |-> "a.prg", Static |-> TRUE, UsageCount |-> 3]

(***************************************************************************)
(* C23: the global map is keyed by the name as written, so two global      *)
(* declarations in different files whose names differ only in letter case  *)
(* make two entries; every file being read in both phases, each            *)
(* declaration line counts as a usage of the other entry, so both entries  *)
(* end with usageCount >= 2 and neither is in the unused-global list.      *)
(***************************************************************************)
ToUpperFoo == <<"F","O","O">>

\* n1 in f1 and n2 in f2 are global declarations differing only in case
CaseTwins(f1, n1, f2, n2) ==
    /\ f1 # f2
    /\ n1 \in NamesDeclaredIn(f1, FALSE)
    /\ n2 \in NamesDeclaredIn(f2, FALSE)
    /\ n1 # n2
    /\ ToLower(n1) = ToLower(n2)

TwinNames ==
    {p \in (DOMAIN globalFunctions) \X (DOMAIN globalFunctions) :
        \E f1, f2 \in ElementsOf(prgFiles) : CaseTwins(f1, p[1], f2, p[2])}

\* the keying half: twins are two entries, each under its own spelling
C23_TwinsAreTwoEntries ==
    (AfterUsage /\ unreadable = {}) =>
        \A f1, f2 \in ElementsOf(prgFiles) :
            \A n1 \in NamesDeclaredIn(f1, FALSE), n2 \in NamesDeclaredIn(f2, FALSE) :
                CaseTwins(f1, n1, f2, n2) =>
                    /\ {n1, n2} \subseteq DOMAIN globalFunctions
                    /\ globalFunctions[n1].Name = n1
                    /\ globalFunctions[n2].Name = n2

C23_CaseTwinsNeverUnused ==
    (Finished /\ unreadable = {}) =>
        /\ C23_TwinsAreTwoEntries
        /\ \A p \in TwinNames :
              /\ globalFunctions[p[1]].UsageCount >= 2
              /\ ~IsListed(unusedGlobal, p[1], globalFunctions[p[1]].File)

\* the claimed case with plain names: function Foo in a.prg, FUNCTION FOO
\* in b.prg, nothing else; both entries end at 2 and none is listed
C23_TwinsBothCounted ==
    /\ mainPC = "done"
    /\ unreadable = {}
    /\ content["a.prg"] = SrcDecl
    /\ content["b.prg"] = SrcDeclUpper
    /\ DOMAIN globalFunctions = {NmFoo, ToUpperFoo}
    /\ globalFunctions[NmFoo].UsageCount = 2
    /\ globalFunctions[ToUpperFoo].UsageCount = 2
    /\ unusedGlobal = <<>>

\* function Fooé in a.prg, FUNCTION FOO in b.prg: the entry FOO stays at 1
\* and is listed
C23_TwinListed ==
    /\ mainPC = "done"
    /\ unreadable = {}
    /\ content["a.prg"] = SrcDeclAccent
    /\ content["b.prg"] = SrcDeclUpper
    /\ globalFunctions[NmFoo].UsageCount = 2
    /\ globalFunctions[ToUpperFoo].UsageCount = 1
    /\ IsListed(unusedGlobal, ToUpperFoo, "b.prg")

(***************************************************************************)
(* C24: a global name with declaration lines in more than one file that    *)
(* extraction read has one entry; the file it records is one of those      *)
(* files, whichever a worker registered first; the entry leaves extraction *)
(* with usageCount >= 2 and keeps it, so it is never in the unused-global  *)
(* list: every listed global is declared in exactly one file read, which   *)
(* is the file listed, and the statistics and both unused lists are those  *)
(* of the sequential run, whatever the schedule.                           *)
(***************************************************************************)
\* the files extraction read that declare the global `name`
DeclaringFiles(name) ==
    {f \in ElementsOf(prgFiles) :
        ~ReadFails("decl", f) /\ name \in NamesDeclaredIn(f, FALSE)}

DeclaredInSeveralFiles(name) == Cardinality(DeclaringFiles(name)) >= 2

C24_MultiFileGlobalNeverListed ==
    /\ (ExtractionReturned \/ AfterUsage) =>
          \A name \in DOMAIN globalFunctions :
              /\ globalFunctions[name].File \in DeclaringFiles(name)
              /\ DeclaredInSeveralFiles(name) => globalFunctions[name].UsageCount >= 2
    /\ Finished =>
          /\ \A name \in DOMAIN globalFunctions :
                DeclaredInSeveralFiles(name) =>
                    \A f \in Files : ~IsListed(unusedGlobal, name, f)
          /\ \A e \in ElementsOf(unusedGlobal) : DeclaringFiles(e.Name) = {e.File}
          /\ LET r == SequentialResult
             IN  /\ stats = StatisticsOf(r.g, r.s)
                 /\ ElementsOf(unusedGlobal) = UnusedGlobalInfos(r.g)
                 /\ ElementsOf(unusedStatic) = UnusedStaticInfos(r.s)

\* Foo is declared in a.prg (function Foo) and in b.prg (function Foo /
\* FOO()); the worker of b.prg registered first although a.prg was sent
\* first, and nothing is listed
C24_Witness ==
    /\ mainPC = "done"
    /\ unreadable = {}
    /\ content["a.prg"] = SrcDecl
    /\ content["b.prg"] = SrcDeclCall
    /\ DeclaringFiles(NmFoo) = {"a.prg", "b.prg"}
    /\ globalFunctions[NmFoo].File = "b.prg"
    /\ globalFunctions[NmFoo].UsageCount = 4
    /\ unusedGlobal = <<>>

\* the same input with the file sent first recorded
C24_FirstFileRecorded ==
    /\ mainPC = "done"
    /\ unreadable = {}
    /\ content["a.prg"] = SrcDecl
    /\ content["b.prg"] = SrcDeclCall
    /\ globalFunctions[NmFoo].File = "a.prg"
    /\ globalFunctions[NmFoo].UsageCount = 4
    /\ unusedGlobal = <<>>

====
